---------------------------- MODULE Spec2Model ----------------------------
(***************************************************************************)
(* Model of controll.cpp: the HC-SR04 Sonar class, the motor command       *)
(* functions and main's reactive control loop.                             *)
(*                                                                         *)
(* A C++ float is modelled as the pair <<m, e>> that stands for m * 2^e,   *)
(* with m = 0 (and e = 0) or 2^23 <= |m| < 2^24: IEEE-754 binary32 with    *)
(* round-to-nearest-even, in the range where neither overflow nor          *)
(* subnormals occur.                                                       *)
(***************************************************************************)
EXTENDS Integers, Sequences, FiniteSets, TLC

(***************************************************************************)
(* binary32 arithmetic                                                     *)
(***************************************************************************)
MantBits == 24

Abs(n) == IF n < 0 THEN -n ELSE n

Sgn(n) == IF n < 0 THEN -1 ELSE 1

FZero == <<0, 0>>

RECURSIVE DropBits(_)
\* number of low bits a magnitude n >= 0 has beyond a 24 bit mantissa
DropBits(n) ==
    IF n < 2^MantBits THEN 0 ELSE 1 + DropBits(n \div 2)

RECURSIVE ShiftUp(_, _)
\* n * 2^e with 0 < n, scaled until n has 24 bits (exact)
ShiftUp(n, e) ==
    IF n >= 2^(MantBits - 1) THEN <<n, e>> ELSE ShiftUp(2 * n, e - 1)

\* round-to-nearest-even of (q + r/den) * 2^e, for q >= 2^23 and 0 <= r < den,
\* as a magnitude
RoundRat(q, r, den, e) ==
    LET k    == DropBits(q)
        q1   == q \div 2^k
        low  == q % 2^k
        half == IF k = 0 THEN 0 ELSE 2^(k - 1)
        up   == IF k = 0
                THEN 2 * r > den \/ (2 * r = den /\ q1 % 2 = 1)
                ELSE low > half \/ (low = half /\ (r > 0 \/ q1 % 2 = 1))
        q2   == IF up THEN q1 + 1 ELSE q1
    IN  IF q2 = 2^MantBits THEN <<2^(MantBits - 1), e + k + 1>> ELSE <<q2, e + k>>

\* the float nearest to the integer n * 2^e
RoundInt(n, e) ==
    IF n = 0 THEN FZero
    ELSE LET s == ShiftUp(Abs(n), e)
             f == RoundRat(s[1], 0, 1, s[2])
         IN  <<Sgn(n) * f[1], f[2]>>

\* int -> float conversion
FromInt(i) == RoundInt(i, 0)

FNeg(a) == <<-a[1], a[2]>>

\* a + b: exact alignment when the exponents are close, otherwise the smaller
\* operand is shifted right behind three guard bits with a sticky bit
FAdd(a, b) ==
    IF a[1] = 0 THEN b
    ELSE IF b[1] = 0 THEN a
    ELSE LET hi == IF a[2] >= b[2] THEN a ELSE b
             lo == IF a[2] >= b[2] THEN b ELSE a
             k  == hi[2] - lo[2]
         IN  IF k <= 6
             THEN RoundInt(hi[1] * 2^k + lo[1], lo[2])
             ELSE LET H    == Abs(hi[1]) * 8
                      sh   == k - 3
                      Lq   == IF sh >= MantBits THEN 0 ELSE Abs(lo[1]) \div 2^sh
                      Ls   == IF sh >= MantBits THEN TRUE ELSE Abs(lo[1]) % 2^sh # 0
                      same == Sgn(hi[1]) = Sgn(lo[1])
                      n    == IF same THEN H + Lq
                              ELSE IF Ls THEN H - Lq - 1 ELSE H - Lq
                      f    == RoundRat(n, IF Ls THEN 1 ELSE 0, 2, hi[2] - 3)
                  IN  <<Sgn(hi[1]) * f[1], f[2]>>

FSub(a, b) == FAdd(a, FNeg(b))

RECURSIVE StripZeros(_)
\* the same value with the trailing zero bits of the mantissa moved to the exponent
StripZeros(a) ==
    IF a[1] = 0 \/ a[1] % 2 # 0 THEN a ELSE StripZeros(<<a[1] \div 2, a[2] + 1>>)

\* a * b
FMul(a, b) ==
    LET x == StripZeros(a)
        y == StripZeros(b)
    IN  RoundInt(x[1] * y[1], x[2] + y[2])

RECURSIVE LongDiv(_, _, _, _)
\* bits more quotient bits of (q + r/den): <<quotient, remainder>>
LongDiv(q, r, den, bits) ==
    IF bits = 0 THEN <<q, r>>
    ELSE LongDiv(2 * q + ((2 * r) \div den), (2 * r) % den, den, bits - 1)

\* a / b, b # 0
FDiv(a, b) ==
    IF a[1] = 0 THEN FZero
    ELSE LET na == Abs(a[1])
             nb == Abs(b[1])
             d  == LongDiv(na \div nb, na % nb, nb, MantBits)
             f  == RoundRat(d[1], d[2], nb, a[2] - b[2] - MantBits)
         IN  <<Sgn(a[1]) * Sgn(b[1]) * f[1], f[2]>>

FLt(a, b) == FSub(a, b)[1] < 0

FGt(a, b) == FLt(b, a)

\* float -> int conversion: truncation toward zero
ToInt(a) ==
    IF a[2] >= 0 THEN a[1] * 2^a[2]
    ELSE IF -a[2] >= 31 THEN 0
    ELSE Sgn(a[1]) * (Abs(a[1]) \div 2^(-a[2]))

\* a decimal literal num/den written with the f suffix
FLit(num, den) == FDiv(FromInt(num), FromInt(den))

(***************************************************************************)
(* Program constants                                                       *)
(***************************************************************************)
\* period_us(20)
PeriodUs == 20

\* distance / 58.0f
CmDivisor == 58

\* distance = -1
InitialDistance == -1

\* frontDist < 35.0f
FrontStopCm == 35

\* leftDist-rightDist > 5.0f
SideDiffCm == 5

\* rightDist < 15.0f
SideNearCm == 15

\* line 36: ticker.attach(..., 0.02f), in microseconds
TickerPeriodUs == 20000

\* line 78: timeout.attach(..., 10.0e-6), in microseconds
TriggerWidthUs == 10

\* a wait that is a whole number of Ticker periods
StaggerUs_periods == 3 * TickerPeriodUs

\* lines 127, 129: wait(0.066f), in microseconds
StaggerUs == 66000

\* the float literals 0.9f, 0.7f, 1.0f
Duty09 == FLit(9, 10)

Duty07 == FLit(7, 10)

Duty10 == FLit(1, 1)

Sonars == {"sonarFront", "sonarLeft", "sonarRight"}

Channels == {"aIn1", "aIn2", "bIn1", "bIn2"}

(***************************************************************************)
(* Bounds of the model                                                     *)
(***************************************************************************)
\* the clock of SpecSonar and SpecRead runs from 0 to MaxTime microseconds
MaxTime == 4

\* echo pulse widths (microseconds) the control loop is fed in Spec:
\* 34.98.. and 35 cm in front, 10, 15 and 25 cm on the sides
FrontWidths == {2029, 2030}

SideWidths == {580, 870, 1450}

EchoWidths(s) == IF s = "sonarFront" THEN FrontWidths ELSE SideWidths

\* duty cycle arguments and prior pulse widths the commands are called with
\* in SpecMotor (1.5 lies outside [0,1])
Duties == {FZero, Duty07, Duty09, Duty10, FLit(3, 2)}

PriorWidths == {0, 20}

\* the clock of SpecTrig runs from 0 to MaxPeriods Ticker periods
MaxPeriods == 10

(***************************************************************************)
(* State                                                                   *)
(***************************************************************************)
VARIABLES
    sonar,      \* Sonars -> the fields of the Sonar object (and of its Timer,
                \* Ticker and Timeout members)
    now,        \* the microsecond clock the Timer reads
    pwm,        \* Channels -> [period, pulsewidth] of the PwmOut
    nSleep,     \* the DigitalOut nSleep
    pc,         \* main's position
    ret,        \* where the running motor command returns to
    cmd,        \* the motor command being (or last) executed: [name, l, r]
    step,       \* the next pulsewidth write of the running command, 1..4
    frontDist, leftDist, rightDist,   \* main's locals
    hist,       \* history: what edges each sensor has seen
    entry,      \* history: the channels when the last direct call began
    issued,     \* history: [prev, cur], the command main issued last before this
                \* loop iteration and the commands issued in this iteration
    probe,      \* SpecSonar, SpecRead: the sensor that receives the events
    timers      \* SpecTrig: [tick, clear, wake], when the Ticker and the Timeout of
                \* each sensor and main's wait are due: <<t>>, or << >> for none

vars == <<sonar, now, pwm, nSleep, pc, ret, cmd, step,
          frontDist, leftDist, rightDist, hist, entry, issued, probe, timers>>

mainVars == <<pwm, nSleep, pc, ret, cmd, step, frontDist, leftDist, rightDist, entry, issued>>

(***************************************************************************)
(* mbed Timer, as the Sonar handlers use it.  r is the sensor's record     *)
(* (running, tstart, ttime are the Timer's _running, _start, _time) and t  *)
(* the clock when the handler runs.                                        *)
(***************************************************************************)
Timer_slicetime(r, t) == IF r.running THEN t - r.tstart ELSE 0

Timer_read_us(r, t) == r.ttime + Timer_slicetime(r, t)

Timer_reset(r, t) == [r EXCEPT !.tstart = t, !.ttime = 0]

Timer_start(r, t) ==
    IF r.running THEN r ELSE [r EXCEPT !.tstart = t, !.running = TRUE]

Timer_stop(r, t) ==
    [r EXCEPT !.ttime = r.ttime + Timer_slicetime(r, t), !.running = FALSE]

(***************************************************************************)
(* class Sonar                                                             *)
(***************************************************************************)
\* Sonar::Sonar.  The three objects are globals: begin and end are zero
\* initialised before the constructor runs.  A constructed Timer is stopped
\* at 0, the Ticker and the Timeout are detached.
SonarInit ==
    [trigger |-> 0, distance |-> FromInt(InitialDistance), begin |-> 0, end |-> 0,
     running |-> FALSE, tstart |-> 0, ttime |-> 0,
     ticker |-> FALSE, timeout |-> FALSE]

\* Sonar::start
start(r) == [r EXCEPT !.ticker = TRUE]

\* stop that cancels the pending Timeout together with the Ticker
stop_all(r) == [r EXCEPT !.ticker = FALSE, !.timeout = FALSE]

\* Sonar::stop
stop(r) == [r EXCEPT !.ticker = FALSE]

\* echo_in that leaves a timer that is already running alone
echo_in_once(r, t) ==
    IF r.running
    THEN r
    ELSE LET r1 == Timer_reset(r, t)
             r2 == Timer_start(r1, t)
         IN  [r2 EXCEPT !.begin = Timer_read_us(r2, t)]

\* Sonar::echo_in
echo_in(r, t) ==
    LET r1 == Timer_reset(r, t)
        r2 == Timer_start(r1, t)
    IN  [r2 EXCEPT !.begin = Timer_read_us(r2, t)]

\* echo_fall with the operands of the subtraction exchanged
echo_fall_swapped(r, t) ==
    LET r1 == [r EXCEPT !.end = Timer_read_us(r, t)]
        r2 == Timer_stop(r1, t)
    IN  [r2 EXCEPT !.distance = FromInt(r2.begin - r2.end)]

\* Sonar::echo_fall
echo_fall(r, t) ==
    LET r1 == [r EXCEPT !.end = Timer_read_us(r, t)]
        r2 == Timer_stop(r1, t)
    IN  [r2 EXCEPT !.distance = FromInt(r2.end - r2.begin)]

\* trigger_toggle that leaves the trigger pin as it is
trigger_toggle_keep(r) == [r EXCEPT !.timeout = FALSE]

\* Sonar::trigger_toggle
trigger_toggle(r) == [r EXCEPT !.trigger = 0, !.timeout = FALSE]

\* Sonar::background_read
background_read(r) == [r EXCEPT !.trigger = 1, !.timeout = TRUE]

\* read that computes the width from end and begin
read_end_begin(r) == FDiv(FromInt(r.end - r.begin), FLit(CmDivisor, 1))

\* Sonar::read
read(r) == FDiv(r.distance, FLit(CmDivisor, 1))

(***************************************************************************)
(* History of the echo edges of one sensor                                 *)
(*   risen   a rising edge has occurred                                    *)
(*   paired  a falling edge has occurred after a rising edge               *)
(*   edge    the last edge: "none", "rise" or "fall"                       *)
(*   riseAt  the clock at the last rising edge                             *)
(*   pulse   <<T0, T1>> when the last two edges were a rising edge at T0   *)
(*           and then a falling edge at T1, << >> otherwise                *)
(*   missed  <<T>> when the last rising edge came straight after a rising  *)
(*           edge at T that no falling edge followed, << >> otherwise      *)
(*   last    <<T0, T1>> of the most recent rising edge at T0 that a        *)
(*           falling edge at T1 followed, << >> while there is none        *)
(*   triggers  how often the trigger routine has run since the last        *)
(*           rising edge, counted up to two: twice means that a whole      *)
(*           Ticker period has passed since that edge                      *)
(***************************************************************************)
HistInit ==
    [risen |-> FALSE, paired |-> FALSE, edge |-> "none", riseAt |-> 0, pulse |-> << >>,
     missed |-> << >>, last |-> << >>, triggers |-> 0]

HistRise(h, t) ==
    [h EXCEPT !.risen = TRUE, !.edge = "rise", !.riseAt = t, !.pulse = << >>,
              !.missed = IF h.edge = "rise" THEN <<h.riseAt>> ELSE << >>,
              !.triggers = 0]

HistFall(h, t) ==
    [h EXCEPT !.paired = h.risen, !.edge = "fall",
              !.pulse = IF h.edge = "rise" THEN <<h.riseAt, t>> ELSE << >>,
              !.last = IF h.edge = "rise" THEN <<h.riseAt, t>> ELSE h.last]

HistTrigger(h) ==
    [h EXCEPT !.triggers = IF h.triggers < 2 THEN h.triggers + 1 ELSE h.triggers]

(***************************************************************************)
(* Motor command functions.  Each is the sequence of its four              *)
(* pulsewidth_us calls, <<channel, microseconds>>, in program order.       *)
(***************************************************************************)
\* int(20*duty): the int 20 is converted to float, the product is a float,
\* the cast truncates
PulseWidth(duty) == ToInt(FMul(FromInt(PeriodUs), duty))

\* forward without the write that clears aIn2 (aIn1 is written twice)
forward_no_clear(l_duty_cycle, r_duty_cycle) ==
    << <<"aIn1", PulseWidth(r_duty_cycle)>>,
       <<"aIn1", PulseWidth(r_duty_cycle)>>,
       <<"bIn1", PulseWidth(l_duty_cycle)>>,
       <<"bIn2", 0>> >>

forward(l_duty_cycle, r_duty_cycle) ==
    << <<"aIn1", PulseWidth(r_duty_cycle)>>,
       <<"aIn2", 0>>,
       <<"bIn1", PulseWidth(l_duty_cycle)>>,
       <<"bIn2", 0>> >>

\* backward with the left wheel's two writes exchanged (the body of turnRight)
backward_left_fwd(l_duty_cycle, r_duty_cycle) ==
    << <<"aIn1", 0>>,
       <<"aIn2", PulseWidth(r_duty_cycle)>>,
       <<"bIn1", PulseWidth(l_duty_cycle)>>,
       <<"bIn2", 0>> >>

backward(l_duty_cycle, r_duty_cycle) ==
    << <<"aIn1", 0>>,
       <<"aIn2", PulseWidth(r_duty_cycle)>>,
       <<"bIn1", 0>>,
       <<"bIn2", PulseWidth(l_duty_cycle)>> >>

\* stop() takes no arguments: the two parameters are those of the command
\* record and are not used
stop_motors(l_duty_cycle, r_duty_cycle) ==
    << <<"aIn1", 0>>, <<"aIn2", 0>>, <<"bIn1", 0>>, <<"bIn2", 0>> >>

turnRight(l_duty_cycle, r_duty_cycle) ==
    << <<"aIn1", 0>>,
       <<"aIn2", PulseWidth(r_duty_cycle)>>,
       <<"bIn1", PulseWidth(l_duty_cycle)>>,
       <<"bIn2", 0>> >>

\* turnLeft that drives both channels of the right wheel
turnLeft_both(l_duty_cycle, r_duty_cycle) ==
    << <<"aIn1", PulseWidth(r_duty_cycle)>>,
       <<"aIn2", PulseWidth(l_duty_cycle)>>,
       <<"bIn1", 0>>,
       <<"bIn2", 0>> >>

turnLeft(l_duty_cycle, r_duty_cycle) ==
    << <<"aIn1", PulseWidth(r_duty_cycle)>>,
       <<"aIn2", 0>>,
       <<"bIn1", 0>>,
       <<"bIn2", PulseWidth(l_duty_cycle)>> >>

CommandNames == {"forward", "backward", "stop", "turnRight", "turnLeft"}

Command(name, l, r) == [name |-> name, l |-> l, r |-> r]

NoCommand == Command("none", FZero, FZero)

\* the writes of a command
Body(c) ==
    CASE c.name = "forward"   -> forward(c.l, c.r)
      [] c.name = "backward"  -> backward(c.l, c.r)
      [] c.name = "stop"      -> stop_motors(c.l, c.r)
      [] c.name = "turnRight" -> turnRight(c.l, c.r)
      [] c.name = "turnLeft"  -> turnLeft(c.l, c.r)

\* PwmOut::pulsewidth_us
pulsewidth_us(p, ch, us) == [p EXCEPT ![ch].pulsewidth = us]

\* PwmOut::period_us on a channel whose pulse width is 0
period_us(p, ch, us) == [p EXCEPT ![ch].period = us]

\* a constructed PwmOut: mbed's default period of 20 ms, duty cycle 0
PwmInit == [ch \in Channels |-> [period |-> 20000, pulsewidth |-> 0]]

(***************************************************************************)
(* main: the decision of one loop iteration, lines 145-168                 *)
(***************************************************************************)
\* the decision with >= in place of > in the two side comparisons
Decide_ge(front, left, right) ==
    IF FLt(front, FLit(FrontStopCm, 1))
    THEN Command("backward", Duty09, Duty09)
    ELSE IF ~FLt(FSub(left, right), FLit(SideDiffCm, 1))
         THEN IF FLt(right, FLit(SideNearCm, 1))
              THEN Command("turnLeft", Duty10, Duty10)
              ELSE Command("turnLeft", Duty07, Duty10)
         ELSE IF ~FLt(FSub(right, left), FLit(SideDiffCm, 1))
              THEN IF FLt(left, FLit(SideNearCm, 1))
                   THEN Command("turnRight", Duty10, Duty10)
                   ELSE Command("turnRight", Duty10, Duty07)
              ELSE Command("forward", Duty10, Duty10)

\* the decision with the sharp and the gentle left turn exchanged
Decide_sharp_far(front, left, right) ==
    IF FLt(front, FLit(FrontStopCm, 1))
    THEN Command("backward", Duty09, Duty09)
    ELSE IF FGt(FSub(left, right), FLit(SideDiffCm, 1))
         THEN IF FLt(right, FLit(SideNearCm, 1))
              THEN Command("turnLeft", Duty07, Duty10)
              ELSE Command("turnLeft", Duty10, Duty10)
         ELSE IF FGt(FSub(right, left), FLit(SideDiffCm, 1))
              THEN IF FLt(left, FLit(SideNearCm, 1))
                   THEN Command("turnRight", Duty10, Duty10)
                   ELSE Command("turnRight", Duty10, Duty07)
              ELSE Command("forward", Duty10, Duty10)

\* the decision with the arguments of the gentle right turn in the order of
\* the gentle left turn
Decide_right_args(front, left, right) ==
    IF FLt(front, FLit(FrontStopCm, 1))
    THEN Command("backward", Duty09, Duty09)
    ELSE IF FGt(FSub(left, right), FLit(SideDiffCm, 1))
         THEN IF FLt(right, FLit(SideNearCm, 1))
              THEN Command("turnLeft", Duty10, Duty10)
              ELSE Command("turnLeft", Duty07, Duty10)
         ELSE IF FGt(FSub(right, left), FLit(SideDiffCm, 1))
              THEN IF FLt(left, FLit(SideNearCm, 1))
                   THEN Command("turnRight", Duty10, Duty10)
                   ELSE Command("turnRight", Duty07, Duty10)
              ELSE Command("forward", Duty10, Duty10)

\* Decide that takes a negative front reading for "no reading" and skips
\* the front check
Decide_valid_only(front, left, right) ==
    IF FLt(front, FLit(FrontStopCm, 1)) /\ ~FLt(front, FZero)
    THEN Command("backward", Duty09, Duty09)
    ELSE IF FGt(FSub(left, right), FLit(SideDiffCm, 1))
         THEN IF FLt(right, FLit(SideNearCm, 1))
              THEN Command("turnLeft", Duty10, Duty10)
              ELSE Command("turnLeft", Duty07, Duty10)
         ELSE IF FGt(FSub(right, left), FLit(SideDiffCm, 1))
              THEN IF FLt(left, FLit(SideNearCm, 1))
                   THEN Command("turnRight", Duty10, Duty10)
                   ELSE Command("turnRight", Duty10, Duty07)
              ELSE Command("forward", Duty10, Duty10)

\* Decide whose last branch stops the motors
Decide_stop(front, left, right) ==
    IF FLt(front, FLit(FrontStopCm, 1))
    THEN Command("backward", Duty09, Duty09)
    ELSE IF FGt(FSub(left, right), FLit(SideDiffCm, 1))
         THEN IF FLt(right, FLit(SideNearCm, 1))
              THEN Command("turnLeft", Duty10, Duty10)
              ELSE Command("turnLeft", Duty07, Duty10)
         ELSE IF FGt(FSub(right, left), FLit(SideDiffCm, 1))
              THEN IF FLt(left, FLit(SideNearCm, 1))
                   THEN Command("turnRight", Duty10, Duty10)
                   ELSE Command("turnRight", Duty10, Duty07)
              ELSE Command("stop", Duty10, Duty10)

Decide(front, left, right) ==
    IF FLt(front, FLit(FrontStopCm, 1))
    THEN Command("backward", Duty09, Duty09)
    ELSE IF FGt(FSub(left, right), FLit(SideDiffCm, 1))
         THEN IF FLt(right, FLit(SideNearCm, 1))
              THEN Command("turnLeft", Duty10, Duty10)
              ELSE Command("turnLeft", Duty07, Duty10)
         ELSE IF FGt(FSub(right, left), FLit(SideDiffCm, 1))
              THEN IF FLt(left, FLit(SideNearCm, 1))
                   THEN Command("turnRight", Duty10, Duty10)
                   ELSE Command("turnRight", Duty10, Duty07)
              ELSE Command("forward", Duty10, Duty10)

(***************************************************************************)
(* Actions of main                                                         *)
(***************************************************************************)
sonarVars == <<sonar, now, hist, probe, timers>>

Goto(l) ==
    /\ pc' = l
    /\ UNCHANGED <<pwm, nSleep, ret, cmd, step, frontDist, leftDist, rightDist, entry, issued>>

\* lines 119-123
MainSetup ==
    /\ pc = "setup"
    /\ nSleep' = 1
    /\ pwm' = period_us(period_us(period_us(period_us(pwm,
                  "aIn1", PeriodUs), "aIn2", PeriodUs), "bIn1", PeriodUs), "bIn2", PeriodUs)
    /\ pc' = "startFront"
    /\ UNCHANGED <<ret, cmd, step, frontDist, leftDist, rightDist, entry, issued, sonarVars>>

\* lines 126, 128, 130: sonarX.start()
MainStart(at, s, to) ==
    /\ pc = at
    /\ sonar' = [sonar EXCEPT ![s] = start(sonar[s])]
    /\ Goto(to)
    /\ UNCHANGED <<now, hist, probe, timers>>

\* lines 127, 129: wait(0.066f)
MainWait(at, to) ==
    /\ pc = at
    /\ Goto(to)
    /\ UNCHANGED sonarVars

\* a call of a motor command from main
CallMotor(c, to) ==
    /\ cmd' = c
    /\ step' = 1
    /\ ret' = to
    /\ pc' = "motor"

\* line 132: forward(1.0f, 1.0f)
MainDefault ==
    /\ pc = "default"
    /\ CallMotor(Command("forward", Duty10, Duty10), "readFront")
    /\ issued' = [prev |-> "forward", cur |-> << >>]
    /\ UNCHANGED <<pwm, nSleep, frontDist, leftDist, rightDist, entry, sonarVars>>

\* line 135
MainReadFront ==
    /\ pc = "readFront"
    /\ frontDist' = read(sonar["sonarFront"])
    /\ pc' = "readLeft"
    /\ UNCHANGED <<pwm, nSleep, ret, cmd, step, leftDist, rightDist, entry, issued, sonarVars>>

\* line 136
MainReadLeft ==
    /\ pc = "readLeft"
    /\ leftDist' = read(sonar["sonarLeft"])
    /\ pc' = "readRight"
    /\ UNCHANGED <<pwm, nSleep, ret, cmd, step, frontDist, rightDist, entry, issued, sonarVars>>

\* line 137
MainReadRight ==
    /\ pc = "readRight"
    /\ rightDist' = read(sonar["sonarRight"])
    /\ pc' = "decide"
    /\ UNCHANGED <<pwm, nSleep, ret, cmd, step, frontDist, leftDist, entry, issued, sonarVars>>

\* lines 145-168: the branch taken and the call it makes
MainDecide ==
    /\ pc = "decide"
    /\ CallMotor(Decide(frontDist, leftDist, rightDist), "report")
    /\ issued' = [issued EXCEPT !.cur = Append(@, cmd'.name)]
    /\ UNCHANGED <<pwm, nSleep, frontDist, leftDist, rightDist, entry, sonarVars>>

\* one pulsewidth_us call of the running command; the fourth returns
MotorWrite ==
    /\ pc = "motor"
    /\ LET w == Body(cmd)[step]
       IN  pwm' = pulsewidth_us(pwm, w[1], w[2])
    /\ IF step = 4
       THEN pc' = ret /\ step' = 0
       ELSE pc' = pc /\ step' = step + 1
    /\ UNCHANGED <<nSleep, ret, cmd, frontDist, leftDist, rightDist, entry, issued, sonarVars>>

\* lines 170-173: the duty cycles are read back and printed
MainReport ==
    /\ pc = "report"
    /\ pc' = "readFront"
    /\ issued' = [prev |-> issued.cur[Len(issued.cur)], cur |-> << >>]
    /\ UNCHANGED <<pwm, nSleep, ret, cmd, step, frontDist, leftDist, rightDist, entry, sonarVars>>

\* lines 132-174: the default command and the control loop
MainLoop ==
    \/ MainDefault
    \/ MainReadFront
    \/ MainReadLeft
    \/ MainReadRight
    \/ MainDecide
    \/ MotorWrite
    \/ MainReport

Main ==
    \/ MainSetup
    \/ MainStart("startFront", "sonarFront", "wait1")
    \/ MainWait("wait1", "startLeft")
    \/ MainStart("startLeft", "sonarLeft", "wait2")
    \/ MainWait("wait2", "startRight")
    \/ MainStart("startRight", "sonarRight", "default")
    \/ MainLoop

(***************************************************************************)
(* Interrupt handlers and the clock                                        *)
(***************************************************************************)
\* rising edge on the echo pin of s
EchoIn(s) ==
    /\ sonar' = [sonar EXCEPT ![s] = echo_in(sonar[s], now)]
    /\ hist' = [hist EXCEPT ![s] = HistRise(hist[s], now)]
    /\ UNCHANGED <<now, probe, timers, mainVars>>

\* falling edge on the echo pin of s
EchoFall(s) ==
    /\ sonar' = [sonar EXCEPT ![s] = echo_fall(sonar[s], now)]
    /\ hist' = [hist EXCEPT ![s] = HistFall(hist[s], now)]
    /\ UNCHANGED <<now, probe, timers, mainVars>>

\* the Ticker fires
BackgroundRead(s) ==
    /\ sonar[s].ticker
    /\ sonar' = [sonar EXCEPT ![s] = background_read(sonar[s])]
    /\ hist' = [hist EXCEPT ![s] = HistTrigger(hist[s])]
    /\ UNCHANGED <<now, probe, timers, mainVars>>

\* the Timeout fires
TriggerToggle(s) ==
    /\ sonar[s].timeout
    /\ sonar' = [sonar EXCEPT ![s] = trigger_toggle(sonar[s])]
    /\ UNCHANGED <<now, hist, probe, timers, mainVars>>

Start(s) ==
    /\ ~sonar[s].ticker
    /\ sonar' = [sonar EXCEPT ![s] = start(sonar[s])]
    /\ UNCHANGED <<now, hist, probe, timers, mainVars>>

Stop(s) ==
    /\ sonar[s].ticker
    /\ sonar' = [sonar EXCEPT ![s] = stop(sonar[s])]
    /\ UNCHANGED <<now, hist, probe, timers, mainVars>>

\* one microsecond passes
Tick ==
    /\ now < MaxTime
    /\ now' = now + 1
    /\ UNCHANGED <<sonar, hist, probe, timers, mainVars>>

\* a whole echo pulse of w microseconds on s: the rising edge, w microseconds,
\* the falling edge.  The control loop reads no field but distance, which
\* only the falling edge writes; the clock itself is not advanced.
Measure(s, w) ==
    /\ sonar' = [sonar EXCEPT ![s] = echo_fall(echo_in(sonar[s], now), now + w)]
    /\ hist' = [hist EXCEPT ![s] = HistFall(HistRise(hist[s], now), now + w)]
    /\ UNCHANGED <<now, probe, timers, mainVars>>

\* the level of the echo pin of s: high from a rising edge to the next
\* falling edge
EchoHigh(s) == hist[s].edge = "rise"

\* the echo pin of s goes high: InterruptIn calls echo_in
EchoLineRise(s) ==
    /\ ~EchoHigh(s)
    /\ EchoIn(s)

\* the echo pin of s goes low: InterruptIn calls echo_fall
EchoLineFall(s) ==
    /\ EchoHigh(s)
    /\ EchoFall(s)

(***************************************************************************)
(* The same program on the clock of the Ticker and Timeout: every callback *)
(* runs at the microsecond it is due, and the clock moves from one due     *)
(* time to the next.                                                       *)
(***************************************************************************)
\* lines 126, 128, 130: sonarX.start(); Ticker::attach makes the first call
\* one period after the attach
TimedStart(at, s, to) ==
    /\ pc = at
    /\ sonar' = [sonar EXCEPT ![s] = start(sonar[s])]
    /\ timers' = [timers EXCEPT !.tick[s] = <<now + TickerPeriodUs>>]
    /\ Goto(to)
    /\ UNCHANGED <<now, hist, probe>>

\* lines 127, 129: wait(0.066f) is entered
WaitBegin(at) ==
    /\ pc = at
    /\ timers.wake = << >>
    /\ timers' = [timers EXCEPT !.wake = <<now + StaggerUs>>]
    /\ UNCHANGED <<sonar, now, hist, probe, mainVars>>

\* lines 127, 129: wait(0.066f) returns
WaitEnd(at, to) ==
    /\ pc = at
    /\ timers.wake = <<now>>
    /\ timers' = [timers EXCEPT !.wake = << >>]
    /\ Goto(to)
    /\ UNCHANGED <<sonar, now, hist, probe>>

\* the Ticker of s is due: background_read, which attaches the Timeout anew
TickerFire(s) ==
    /\ sonar[s].ticker
    /\ timers.tick[s] = <<now>>
    /\ sonar' = [sonar EXCEPT ![s] = background_read(sonar[s])]
    /\ hist' = [hist EXCEPT ![s] = HistTrigger(hist[s])]
    /\ timers' = [timers EXCEPT !.tick[s] = <<now + TickerPeriodUs>>,
                                !.clear[s] = <<now + TriggerWidthUs>>]
    /\ UNCHANGED <<now, probe, mainVars>>

\* the Timeout of s is due: trigger_toggle
TimeoutFire(s) ==
    /\ sonar[s].timeout
    /\ timers.clear[s] = <<now>>
    /\ sonar' = [sonar EXCEPT ![s] = trigger_toggle(sonar[s])]
    /\ timers' = [timers EXCEPT !.clear[s] = << >>]
    /\ UNCHANGED <<now, hist, probe, mainVars>>

\* the times at which something is due
Deadlines ==
    {timers.tick[s][1] : s \in {x \in Sonars : timers.tick[x] # << >>}}
    \cup {timers.clear[s][1] : s \in {x \in Sonars : timers.clear[x] # << >>}}
    \cup {timers.wake[i] : i \in DOMAIN timers.wake}

Earliest(S) == CHOOSE x \in S : \A y \in S : x <= y

\* time passes until the next callback or the end of the wait is due.  The
\* statements of lines 119-130 between the waits take no time; the loop
\* takes whatever time it takes.
Advance ==
    /\ pc \notin {"setup", "startFront", "startLeft", "startRight"}
    /\ ~(pc \in {"wait1", "wait2"} /\ timers.wake = << >>)
    /\ Deadlines # {}
    /\ \A d \in Deadlines : d > now
    /\ Earliest(Deadlines) <= MaxPeriods * TickerPeriodUs
    /\ now' = Earliest(Deadlines)
    /\ UNCHANGED <<sonar, hist, probe, timers, mainVars>>

\* a direct call of a motor command with arbitrary arguments
Call(name, l, r) ==
    /\ pc = "caller"
    /\ CallMotor(Command(name, l, r), "caller")
    /\ entry' = pwm
    /\ UNCHANGED <<pwm, nSleep, frontDist, leftDist, rightDist, issued, sonarVars>>

(***************************************************************************)
(* Specifications                                                          *)
(***************************************************************************)
\* no Ticker attached, no Timeout attached, main not waiting
TimersInit ==
    [tick |-> [s \in Sonars |-> << >>], clear |-> [s \in Sonars |-> << >>], wake |-> << >>]

InitCommon ==
    /\ sonar = [s \in Sonars |-> SonarInit]
    /\ hist = [s \in Sonars |-> HistInit]
    /\ now = 0
    /\ nSleep = 0
    /\ ret = "none"
    /\ cmd = NoCommand
    /\ step = 0
    /\ frontDist = FZero
    /\ leftDist = FZero
    /\ rightDist = FZero
    /\ issued = [prev |-> "none", cur |-> << >>]
    /\ timers = TimersInit

\* Spec: main and its control loop, fed by whole echo pulses that may arrive
\* between any two steps of main.  The Ticker and Timeout callbacks write
\* only the trigger pin, which main never reads; they run in SpecSonar and
\* SpecTrig.
Init ==
    /\ InitCommon
    /\ pwm = PwmInit
    /\ entry = PwmInit
    /\ pc = "setup"
    /\ probe = "none"

Next ==
    \/ Main
    \/ \E s \in Sonars : \E w \in EchoWidths(s) : Measure(s, w)

Spec == Init /\ [][Next]_vars

\* SpecSonar: every event of one sensor, edge by edge, on a microsecond clock
InitSonar ==
    /\ InitCommon
    /\ pwm = PwmInit
    /\ entry = PwmInit
    /\ pc = "idle"
    /\ probe \in Sonars

NextSonar ==
    \/ Start(probe)
    \/ Stop(probe)
    \/ BackgroundRead(probe)
    \/ TriggerToggle(probe)
    \/ EchoIn(probe)
    \/ EchoFall(probe)
    \/ Tick

SpecSonar == InitSonar /\ [][NextSonar]_vars

\* SpecSonarFair: SpecSonar in which a pending Timeout does fire: the
\* hardware timer raises its interrupt 10 microseconds after attach, and no
\* handler of the program masks interrupts or fails to return
SpecSonarFair == SpecSonar /\ WF_vars(TriggerToggle(probe))

\* SpecRead: main and its control loop, preempted between any two steps by
\* the echo handlers of one sensor, whose echo pin rises and falls in turn on
\* the microsecond clock
InitRead ==
    /\ InitCommon
    /\ pwm = PwmInit
    /\ entry = PwmInit
    /\ pc = "setup"
    /\ probe \in Sonars

NextRead ==
    \/ Main
    \/ EchoLineRise(probe)
    \/ EchoLineFall(probe)
    \/ Tick

SpecRead == InitRead /\ [][NextRead]_vars

\* SpecTrig: main with its waits, and the Ticker and Timeout callbacks of the
\* three sensors, on the microsecond clock
NextTrig ==
    \/ MainSetup
    \/ TimedStart("startFront", "sonarFront", "wait1")
    \/ WaitBegin("wait1")
    \/ WaitEnd("wait1", "startLeft")
    \/ TimedStart("startLeft", "sonarLeft", "wait2")
    \/ WaitBegin("wait2")
    \/ WaitEnd("wait2", "startRight")
    \/ TimedStart("startRight", "sonarRight", "default")
    \/ MainLoop
    \/ \E s \in Sonars : TickerFire(s)
    \/ \E s \in Sonars : TimeoutFire(s)
    \/ Advance

SpecTrig == Init /\ [][NextTrig]_vars

\* SpecMotor: each motor command called with any arguments from any channel state
InitMotor ==
    /\ InitCommon
    /\ pwm \in [Channels -> [period : {PeriodUs}, pulsewidth : PriorWidths]]
    /\ entry = pwm
    /\ pc = "caller"
    /\ probe = "none"

NextMotor ==
    \/ \E name \in CommandNames, l \in Duties, r \in Duties : Call(name, l, r)
    \/ MotorWrite

SpecMotor == InitMotor /\ [][NextMotor]_vars

(***************************************************************************)
(* Vocabulary of the properties                                            *)
(***************************************************************************)
PW(ch) == pwm[ch].pulsewidth

\* <<aIn1, aIn2, bIn1, bIn2>>
Widths(p) ==
    <<p["aIn1"].pulsewidth, p["aIn2"].pulsewidth, p["bIn1"].pulsewidth, p["bIn2"].pulsewidth>>

\* at most one channel of each wheel's pair carries a nonzero pulse width
PairExclusive(p) ==
    /\ ~(p["aIn1"].pulsewidth # 0 /\ p["aIn2"].pulsewidth # 0)
    /\ ~(p["bIn1"].pulsewidth # 0 /\ p["bIn2"].pulsewidth # 0)

\* a motor command has been called and has returned
Returned == pc # "motor" /\ cmd.name # "none"

\* the end of a control-loop iteration: the command of lines 145-168 has returned
IterationEnd == pc = "report"

F(n) == FLit(n, 1)

FrontNear == FLt(frontDist, F(FrontStopCm))

LeftOpen == FGt(FSub(leftDist, rightDist), F(SideDiffCm))

RightOpen == FGt(FSub(rightDist, leftDist), F(SideDiffCm))

\* pulse width w is the fraction num/den of the channel's period
Fraction(ch, num, den) == pwm[ch].pulsewidth * den = num * pwm[ch].period

\* the channels a command body leaves behind when run from channels p
RunFrom(p, body) ==
    LET p1 == pulsewidth_us(p, body[1][1], body[1][2])
        p2 == pulsewidth_us(p1, body[2][1], body[2][2])
        p3 == pulsewidth_us(p2, body[3][1], body[3][2])
    IN  pulsewidth_us(p3, body[4][1], body[4][2])

AllOff == [ch \in Channels |-> [period |-> PeriodUs, pulsewidth |-> 0]]

\* the pulse widths the decision for (front, left, right) yields from stopped motors
Outcome(front, left, right) == Widths(RunFrom(AllOff, Body(Decide(front, left, right))))

\* the two wheels exchanged
Mirror(w) == <<w[3], w[4], w[1], w[2]>>

\* what read() returns for the constructor's distance
Unknown == read(SonarInit)

(***************************************************************************)
(* C1: at every instant, the states between the four writes of a command   *)
(* included, each wheel's channel pair has at most one channel with a      *)
(* nonzero pulse width.                                                    *)
(***************************************************************************)
C1_NeverBothNonzero == PairExclusive(pwm)

(***************************************************************************)
(* C2: whenever a motor command has returned, whatever the channels were   *)
(* before the call and whatever the duty cycle arguments, each wheel's     *)
(* channel pair has at most one channel with a nonzero pulse width.        *)
(***************************************************************************)
C2_ExclusiveOnReturn == Returned => PairExclusive(pwm)

\* a command with a duty cycle above 1 has returned from a call that began
\* with both channels of both wheels nonzero
C2_Witness ==
    /\ Returned
    /\ cmd.name = "turnLeft"
    /\ cmd.l = FLit(3, 2)
    /\ \A ch \in Channels : entry[ch].pulsewidth # 0
    /\ PW("bIn2") > PeriodUs

(***************************************************************************)
(* C3: a falling echo edge that arrives while no capture is running (the   *)
(* last edge was not a rising edge) leaves the value read() returns as it  *)
(* was.                                                                    *)
(***************************************************************************)
C3_SpuriousFallDiscarded ==
    [][\A s \in Sonars :
          (EchoFall(s) /\ hist[s].edge # "rise") => read(sonar'[s]) = read(sonar[s])]_vars

(***************************************************************************)
(* C4: as long as the sensor has not seen a rising echo edge followed      *)
(* later by a falling echo edge, read() returns the value of the           *)
(* constructor's distance.                                                 *)
(***************************************************************************)
C4_UnknownBeforeFirstPair ==
    \A s \in Sonars : ~hist[s].paired => read(sonar[s]) = Unknown

(***************************************************************************)
(* C5: after a rising edge at T0 directly followed by a falling edge at    *)
(* T1 >= T0, the sensor stores T1 - T0 and read() returns the float        *)
(* nearest to (T1 - T0) / 58.                                              *)
(***************************************************************************)
\* rd is a float within half a unit in the last place of w / 58
NearestQuotient(rd, w) ==
    IF w = 0 THEN rd = FZero
    ELSE /\ rd[1] >= 2^(MantBits - 1)
         /\ rd[1] < 2^MantBits
         /\ rd[2] < 0
         /\ 2 * Abs(CmDivisor * rd[1] - w * 2^(-rd[2])) <= CmDivisor

C5_PulseWidthMeasured ==
    \A s \in Sonars :
        hist[s].pulse # << >> =>
            LET w == hist[s].pulse[2] - hist[s].pulse[1]
            IN  /\ w >= 0
                /\ ToInt(sonar[s].distance) = w
                /\ sonar[s].end - sonar[s].begin = w
                /\ NearestQuotient(read(sonar[s]), w)

\* a pulse that begins after time 0, lasts two microseconds or more and
\* follows an earlier completed pulse
C5_Witness ==
    \E s \in Sonars :
        /\ hist[s].pulse # << >>
        /\ hist[s].pulse[1] >= 2
        /\ hist[s].pulse[2] - hist[s].pulse[1] >= 2

(***************************************************************************)
(* C6: an iteration whose front reading is below 35 cm ends with Backward  *)
(* at 0.9 on both wheels (aIn2 and bIn2 at 0.9 of the period, aIn1 and     *)
(* bIn1 at 0) and has issued no other command, whatever the side readings. *)
(***************************************************************************)
C6_FrontStopBackward ==
    (IterationEnd /\ FrontNear) =>
        /\ issued.cur = <<"backward">>
        /\ cmd = Command("backward", Duty09, Duty09)
        /\ PW("aIn1") = 0 /\ PW("bIn1") = 0
        /\ Fraction("aIn2", 9, 10) /\ Fraction("bIn2", 9, 10)

\* a measured front reading below 35 cm with the left side more open
C6_Witness ==
    /\ IterationEnd /\ FrontNear
    /\ frontDist[1] > 0
    /\ LeftOpen
    /\ issued.prev = "turnLeft"

(***************************************************************************)
(* C7: an iteration with front >= 35 cm and a side difference of at most   *)
(* 5 in either direction ends with Forward at (1.0, 1.0); a turn is issued *)
(* only when a side difference is strictly greater than 5.                 *)
(***************************************************************************)
C7_ForwardUnlessStrictlyGreater ==
    IterationEnd =>
        /\ (~FrontNear /\ ~LeftOpen /\ ~RightOpen) =>
               /\ issued.cur = <<"forward">>
               /\ cmd = Command("forward", Duty10, Duty10)
               /\ Widths(pwm) = <<PeriodUs, 0, PeriodUs, 0>>
        /\ cmd.name \in {"turnLeft", "turnRight"} => (LeftOpen \/ RightOpen)

\* left - right is exactly 5
C7_Witness ==
    /\ IterationEnd /\ ~FrontNear
    /\ FSub(leftDist, rightDist) = F(SideDiffCm)
    /\ cmd.name = "forward"

(***************************************************************************)
(* C8: an iteration with front >= 35 cm and left - right > 5 ends with a   *)
(* left turn: both wheels at 1.0 when right < 15, one wheel at 0.7 and the *)
(* other at 1.0 when right >= 15.                                          *)
(***************************************************************************)
C8_LeftTurn ==
    (IterationEnd /\ ~FrontNear /\ LeftOpen) =>
        /\ issued.cur = <<"turnLeft">>
        /\ PW("aIn2") = 0 /\ PW("bIn1") = 0
        /\ IF FLt(rightDist, F(SideNearCm))
           THEN Fraction("aIn1", 1, 1) /\ Fraction("bIn2", 1, 1)
           ELSE \/ Fraction("aIn1", 1, 1) /\ Fraction("bIn2", 7, 10)
                \/ Fraction("aIn1", 7, 10) /\ Fraction("bIn2", 1, 1)

\* the gentle turn: right is exactly 15
C8_Witness ==
    /\ IterationEnd /\ ~FrontNear /\ LeftOpen
    /\ rightDist = F(SideNearCm)
    /\ PW("bIn2") < PW("aIn1")

(***************************************************************************)
(* C9: for front >= 35 the channels an iteration ends with for (front,     *)
(* left = x, right = y) are those for (front, left = y, right = x) with    *)
(* the two wheels exchanged.                                               *)
(***************************************************************************)
C9_MirrorSymmetric ==
    (IterationEnd /\ ~FrontNear) =>
        Widths(pwm) = Mirror(Outcome(frontDist, rightDist, leftDist))

\* a gentle right turn
C9_Witness ==
    /\ IterationEnd /\ ~FrontNear /\ RightOpen
    /\ ~FLt(leftDist, F(SideNearCm))
    /\ cmd.name = "turnRight"

(***************************************************************************)
(* C10: the channels at the end of an iteration are determined by that     *)
(* iteration's readings alone: they are what the decision yields from      *)
(* stopped motors, whatever was issued before.                             *)
(***************************************************************************)
C10_Stateless ==
    IterationEnd => Widths(pwm) = Outcome(frontDist, leftDist, rightDist)

\* Forward right after an iteration that went backward
C10_Witness ==
    /\ IterationEnd
    /\ issued.prev = "backward"
    /\ cmd.name = "forward"

(***************************************************************************)
(* C14: no call of a motor command, whatever its duty cycle arguments,     *)
(* writes a channel pulse width below 0 or above the period of 20          *)
(* microseconds.                                                           *)
(***************************************************************************)
C14_WidthWithinPeriod == \A ch \in Channels : 0 <= PW(ch) /\ PW(ch) <= PeriodUs

(***************************************************************************)
(* C18: an iteration that ends while the front sensor still holds the      *)
(* constructor's distance has read the unknown value in front and has      *)
(* issued backward(0.9, 0.9) and nothing else, whatever the side readings. *)
(***************************************************************************)
C18_UnknownFrontBackward ==
    (IterationEnd /\ sonar["sonarFront"].distance = FromInt(InitialDistance)) =>
        /\ frontDist = Unknown
        /\ issued.cur = <<"backward">>
        /\ cmd = Command("backward", Duty09, Duty09)
        /\ Widths(pwm) = <<0, PulseWidth(Duty09), 0, PulseWidth(Duty09)>>

\* not the first iteration; both sides measured, the right side more open
C18_Witness ==
    /\ IterationEnd
    /\ sonar["sonarFront"].distance = FromInt(InitialDistance)
    /\ issued.prev = "backward"
    /\ leftDist[1] > 0 /\ rightDist[1] > 0
    /\ RightOpen

(***************************************************************************)
(* C19: at the end of every iteration, whatever the three readings (the    *)
(* unknown value included), each wheel has exactly one channel with a      *)
(* nonzero pulse width; the iteration has issued exactly one command, one  *)
(* of backward, turnLeft, turnRight and forward, and never stop.           *)
(***************************************************************************)
C19_EveryWheelDriven ==
    IterationEnd =>
        /\ (PW("aIn1") # 0) # (PW("aIn2") # 0)
        /\ (PW("bIn1") # 0) # (PW("bIn2") # 0)
        /\ Len(issued.cur) = 1
        /\ issued.cur[1] \in {"backward", "turnLeft", "turnRight", "forward"}
        /\ cmd.name = issued.cur[1]

\* a measured front reading of 35 cm, the left reading unknown, the right measured
C19_Witness ==
    /\ IterationEnd
    /\ ~FrontNear
    /\ leftDist = Unknown
    /\ rightDist[1] > 0
    /\ cmd.name = "turnRight"
    /\ issued.prev = "backward"

(***************************************************************************)
(* C17: when a rising edge at T0 that no falling edge followed is          *)
(* followed by a rising edge at T0' and then a falling edge at T1, the     *)
(* pulse width stored by that falling edge is T1 - T0'.                    *)
(***************************************************************************)
C17_MissedEchoHarmless ==
    \A s \in Sonars :
        (hist[s].pulse # << >> /\ hist[s].missed # << >>) =>
            /\ ToInt(sonar[s].distance) = hist[s].pulse[2] - hist[s].pulse[1]
            /\ sonar[s].end - sonar[s].begin = hist[s].pulse[2] - hist[s].pulse[1]

\* T0 < T0' < T1
C17_Witness ==
    \E s \in Sonars :
        /\ hist[s].pulse # << >> /\ hist[s].missed # << >>
        /\ hist[s].missed[1] < hist[s].pulse[1]
        /\ hist[s].pulse[1] < hist[s].pulse[2]
        /\ hist[s].pulse[2] - hist[s].missed[1] >= 3

\* what read() returns for the most recent completed measurement of s, or
\* for the constructor's distance when there is none
Completed(s) ==
    FDiv(FromInt(IF hist[s].last = << >>
                 THEN InitialDistance
                 ELSE hist[s].last[2] - hist[s].last[1]), F(CmDivisor))

(***************************************************************************)
(* C12: every read() of the control loop, preempted by the echo handlers   *)
(* at any point, stores the quotient of the pulse width of one completed   *)
(* measurement, the most recent one completed before the read, or of the   *)
(* constructor's distance when none has completed: never a value of a      *)
(* pulse that has begun and not ended.                                     *)
(***************************************************************************)
C12_ReadsOneMeasurement ==
    [][ /\ (pc = "readFront" /\ pc' = "readLeft") => frontDist' = Completed("sonarFront")
        /\ (pc = "readLeft" /\ pc' = "readRight") => leftDist' = Completed("sonarLeft")
        /\ (pc = "readRight" /\ pc' = "decide") => rightDist' = Completed("sonarRight") ]_vars

\* the front reading is that of a completed pulse while the next pulse has
\* begun and not ended, and the clock has advanced since it began
C12_Witness ==
    /\ pc = "readLeft"
    /\ hist["sonarFront"].last # << >>
    /\ frontDist = Completed("sonarFront")
    /\ frontDist[1] > 0
    /\ EchoHigh("sonarFront")
    /\ now > hist["sonarFront"].riseAt

(***************************************************************************)
(* C11: whenever the sensor is stopped, a trigger pulse in flight          *)
(* included, the trigger line becomes low, and once it is low it stays low *)
(* for as long as the sensor is not started again.                         *)
(***************************************************************************)
C11_StopEndsLow ==
    /\ [](~sonar[probe].ticker => <>(sonar[probe].trigger = 0))
    /\ [][ (~sonar[probe].ticker /\ sonar[probe].trigger = 0 /\ ~sonar'[probe].ticker)
               => sonar'[probe].trigger = 0 ]_vars

\* stopped while the trigger line is high and the clear is pending
C11_Witness ==
    /\ ~sonar[probe].ticker
    /\ sonar[probe].trigger = 1
    /\ sonar[probe].timeout

(***************************************************************************)
(* C13: when a rising edge has had no falling edge for a whole Ticker      *)
(* period (the trigger routine has since run twice), read() no longer      *)
(* returns the value of the last completed measurement.                    *)
(***************************************************************************)
C13_StaleAfterMissedFall ==
    \A s \in Sonars :
        (EchoHigh(s) /\ hist[s].triggers = 2 /\ hist[s].last # << >>) =>
            read(sonar[s]) # Completed(s)

(***************************************************************************)
(* C15: with the sensors started front, left, right and 66 ms between      *)
(* consecutive starts, no two sensors have their trigger line high at the  *)
(* same time and no two sensors' trigger routines are due at the same      *)
(* microsecond.                                                            *)
(***************************************************************************)
C15_PhasesApart ==
    \A s, t \in Sonars :
        s # t =>
            /\ ~(sonar[s].trigger = 1 /\ sonar[t].trigger = 1)
            /\ (timers.tick[s] # << >> /\ timers.tick[t] # << >>)
                   => timers.tick[s] # timers.tick[t]

\* all three sensors run, and the last one started has its trigger line high
\* for the second time at least
C15_Witness ==
    /\ \A s \in Sonars : sonar[s].ticker
    /\ sonar["sonarRight"].trigger = 1
    /\ hist["sonarRight"].triggers = 2
    /\ pc \notin {"setup", "startFront", "wait1", "startLeft", "wait2", "startRight"}

(***************************************************************************)
(* C16: the trigger line of a sensor is high exactly while the one clear   *)
(* that the trigger routine scheduled is pending; that clear is due 10     *)
(* microseconds after the routine ran, and the line is low whenever the    *)
(* routine is due.                                                         *)
(***************************************************************************)
C16_TenMicrosecondPulse ==
    \A s \in Sonars :
        /\ (sonar[s].trigger = 1) = (timers.clear[s] # << >>)
        /\ (sonar[s].trigger = 1) = sonar[s].timeout
        /\ timers.clear[s] # << >> =>
               /\ timers.tick[s] # << >>
               /\ timers.clear[s][1] = (timers.tick[s][1] - TickerPeriodUs) + 10
               /\ now <= timers.clear[s][1]
        /\ timers.tick[s] = <<now>> => sonar[s].trigger = 0

\* the clear of the left sensor is due now, after a periodic tick that was
\* not its first
C16_Witness ==
    /\ sonar["sonarLeft"].trigger = 1
    /\ timers.clear["sonarLeft"] = <<now>>
    /\ hist["sonarLeft"].triggers = 2

=============================================================================
